---- MODULE Spec2Model ----
(***************************************************************************)
(* Model of src/app.py: the Flask application that wraps a user's page     *)
(* description in PROMPT_TEMPLATE, POSTs it to the Hugging Face inference  *)
(* endpoint (call_hf_inference), normalises the JSON answer and cuts the   *)
(* generated text at the first HTML document marker (generate).            *)
(*                                                                         *)
(* A Python str is a sequence of code points; a code point is written as a *)
(* one-character TLA+ string, except U+0130 and U+0307, which are written  *)
(* "U+0130" and "U+0307".                                                  *)
(***************************************************************************)
EXTENDS Integers, Sequences, FiniteSets, TLC

\* A string literal of the source as a sequence of code points.
Chars(s) == [i \in 1..Len(s) |-> SubSeq(s, i, i)]

(***************************************************************************)
(* Bounds of the model                                                     *)
(***************************************************************************)
\* The generated texts are concatenations of at most MaxPieces pieces.
MaxPieces == 3

(***************************************************************************)
(* Python str operations used by the handlers                              *)
(***************************************************************************)
\* str.find returns -1 when the substring does not occur.
NotFoundPos == -1

\* HTTP status that call_hf_inference accepts.
HTTP_OK == 200

ASCII_UPPER == Chars("ABCDEFGHIJKLMNOPQRSTUVWXYZ")
ASCII_LOWER == Chars("abcdefghijklmnopqrstuvwxyz")

\* The characters str.strip() removes (str.isspace), as far as they occur.
Whitespace == {" ", "\t", "\n", "\r", "\f"}

\* The lower-case mapping of one code point.  U+0130 (LATIN CAPITAL LETTER I
\* WITH DOT ABOVE) is the one code point whose lower case is two code points.
LowerChar(c) ==
    IF c = "U+0130" THEN <<"i", "U+0307">>
    ELSE IF \E k \in 1..26 : ASCII_UPPER[k] = c
         THEN <<ASCII_LOWER[CHOOSE k \in 1..26 : ASCII_UPPER[k] = c]>>
         ELSE <<c>>

\* The lower case of s[a..b], code point by code point (the halves are
\* converted separately and joined).
RECURSIVE LowerRange(_, _, _)
LowerRange(s, a, b) ==
    IF a > b THEN <<>>
    ELSE IF a = b THEN LowerChar(s[a])
    ELSE LET m == (a + b) \div 2
         IN  LowerRange(s, a, m) \o LowerRange(s, m + 1, b)

\* s.lower()
Lower(s) == LowerRange(s, 1, Len(s))

\* s[n:] for 0 <= n
Drop(s, n) == SubSeq(s, n + 1, Len(s))

\* sub occurs in s at the 0-based index p
IsAt(s, sub, p) ==
    /\ p >= 0
    /\ p + Len(sub) <= Len(s)
    /\ SubSeq(s, p + 1, p + Len(sub)) = sub

\* The lowest index in lo..hi at which sub occurs in s, NotFoundPos when
\* there is none: the lower half of the range is searched first.
RECURSIVE FindIn(_, _, _, _)
FindIn(s, sub, lo, hi) ==
    IF lo > hi THEN NotFoundPos
    ELSE IF lo = hi THEN (IF IsAt(s, sub, lo) THEN lo ELSE NotFoundPos)
    ELSE LET m == (lo + hi) \div 2
             left == FindIn(s, sub, lo, m)
         IN  IF left # NotFoundPos THEN left ELSE FindIn(s, sub, m + 1, hi)

\* s.find(sub)
Find(s, sub) == FindIn(s, sub, 0, Len(s) - Len(sub))

RECURSIVE LStrip(_)
LStrip(s) ==
    IF s # <<>> /\ Head(s) \in Whitespace THEN LStrip(Tail(s)) ELSE s

RECURSIVE RStrip(_)
RStrip(s) ==
    IF s # <<>> /\ s[Len(s)] \in Whitespace
    THEN RStrip(SubSeq(s, 1, Len(s) - 1))
    ELSE s

\* s.strip()
Strip(s) == RStrip(LStrip(s))

RECURSIVE Digits(_)
Digits(n) ==
    IF n < 10 THEN <<Chars("0123456789")[n + 1]>>
    ELSE Digits(n \div 10) \o <<Chars("0123456789")[(n % 10) + 1]>>

\* f"{n}" for a non-negative int
Str(n) == Digits(n)

(***************************************************************************)
(* Module-level configuration                                              *)
(***************************************************************************)
\* os.environ.get("HUGGINGFACE_API_TOKEN"): None when unset, else a string.
TokenValues ==
    { [set |-> FALSE, value |-> <<>>],
      [set |-> TRUE,  value |-> <<>>],
      [set |-> TRUE,  value |-> Chars("hf_secret")] }

\* `not HF_API_TOKEN`
TokenMissing(token) == ~token.set \/ token.value = <<>>

DirectiveLines ==
    << Chars("/* You are a code generation model. Produce only valid HTML code (single file). */"),
       Chars("/* DO NOT add any explanation, commentary, or non-code text. */"),
       Chars("/* Output must start with <!doctype html> or <html> and be ready to save as .html. */"),
       Chars("/* Keep CSS and JS minimal and inline unless the prompt explicitly requests external files. */"),
       Chars("/* Ensure the HTML is accessible (proper headings, alt attributes for images if present). */") >>

RECURSIVE IndentedLines(_)
IndentedLines(k) ==
    IF k > Len(DirectiveLines) THEN <<>>
    ELSE Chars("    ") \o DirectiveLines[k] \o Chars("\n") \o IndentedLines(k + 1)

\* A plausible slip: the insertion point placed after the label.
PROMPT_TEMPLATE_LabelFirst ==
    Chars("\n") \o IndentedLines(1)
        \o Chars("    User request: ")
        \o Chars("\n\nHTML_CODE:\n")
        \o Chars("{user_request}")

\* The three adjacent literals are one literal; textwrap.dedent finds the
\* unindented "HTML_CODE:" line and so removes no margin.
PROMPT_TEMPLATE ==
    Chars("\n") \o IndentedLines(1)
        \o Chars("    User request: {user_request}")
        \o Chars("\n\nHTML_CODE:\n")

\* Index of the first code point of t at or after i that is in cs,
\* Len(t) + 1 when there is none.
NextOf(t, i, cs) ==
    LET found == {j \in i..Len(t) : t[j] \in cs}
    IN  IF found = {} THEN Len(t) + 1
        ELSE CHOOSE j \in found : \A k \in found : j <= k

\* t.format(user_request=u) from position i: the text up to the next brace
\* is copied, "{{" and "}}" are literal braces, "{user_request}" is replaced
\* by the argument as it is; the argument is not scanned again.
RECURSIVE FormatFrom(_, _, _)
FormatFrom(t, i, u) ==
    LET b == NextOf(t, i, {"{", "}"})
    IN  IF b > Len(t) THEN SubSeq(t, i, Len(t))
        ELSE SubSeq(t, i, b - 1) \o
             ( IF b < Len(t) /\ t[b + 1] = t[b]
               THEN <<t[b]>> \o FormatFrom(t, b + 2, u)
               ELSE LET j == NextOf(t, b, {"}"})
                        name == SubSeq(t, b + 1, j - 1)
                    IN  (IF name = Chars("user_request") THEN u ELSE <<"KeyError">>)
                            \o FormatFrom(t, j + 1, u) )

\* PROMPT_TEMPLATE.format(user_request=user_prompt)
Format(t, u) == FormatFrom(t, 1, u)

(***************************************************************************)
(* Decoded JSON values.  A dict keeps its keys in insertion order:         *)
(* keys[i] maps to items[i].                                               *)
(***************************************************************************)
JStr(s)         == [t |-> "str",  s |-> s,    keys |-> <<>>, items |-> <<>>]
JNum            == [t |-> "num",  s |-> <<>>, keys |-> <<>>, items |-> <<>>]
JNull           == [t |-> "null", s |-> <<>>, keys |-> <<>>, items |-> <<>>]
JList(items)    == [t |-> "list", s |-> <<>>, keys |-> <<>>, items |-> items]
JDict(ks, vs)   == [t |-> "dict", s |-> <<>>, keys |-> ks,   items |-> vs]
\* No value: nothing was returned, nothing is carried.
NoValue         == [t |-> "none", s |-> <<>>, keys |-> <<>>, items |-> <<>>]

\* key in d
HasKey(d, key) == \E k \in 1..Len(d.keys) : d.keys[k] = key

\* d[key]
Get(d, key) == d.items[CHOOSE k \in 1..Len(d.keys) : d.keys[k] = key]

(***************************************************************************)
(* call_hf_inference                                                       *)
(***************************************************************************)
\* What the endpoint does with one POST: requests.post raises (timeout,
\* connection error), or a response with a status code and a body arrives;
\* json_ok says whether resp.json() decodes the body, data is what it
\* decodes to.
Response(raises, errtext, status_code, text, json_ok, data) ==
    [raises |-> raises, errtext |-> errtext, status_code |-> status_code,
     text |-> text, json_ok |-> json_ok, data |-> data]

\* An exception: the literal and str-formatted parts of its message, and the
\* decoded payload its message interpolates, if any.
Exc(text, data) == [text |-> text, data |-> data]
NoExc == Exc(<<>>, NoValue)

Returned(posts, value) ==
    [posts |-> posts, raised |-> FALSE, value |-> value, exc |-> NoExc]
Raised(posts, exc) ==
    [posts |-> posts, raised |-> TRUE, value |-> NoValue, exc |-> exc]

\* A plausible slip: any string value is taken, blank or not.
RECURSIVE FirstStrValue_NoBlankCheck(_, _)
FirstStrValue_NoBlankCheck(vals, j) ==
    IF j > Len(vals) THEN NoValue
    ELSE IF vals[j].t = "str" THEN vals[j]
    ELSE FirstStrValue_NoBlankCheck(vals, j + 1)

\* for v in item.values(): if isinstance(v, str) and v.strip(): return v
RECURSIVE FirstStrValue(_, _)
FirstStrValue(vals, j) ==
    IF j > Len(vals) THEN NoValue
    ELSE IF vals[j].t = "str" /\ Strip(vals[j].s) # <<>> THEN vals[j]
    ELSE FirstStrValue(vals, j + 1)

\* for item in (data if isinstance(data, list) else [data]): ...
RECURSIVE Fallback(_, _)
Fallback(items, i) ==
    IF i > Len(items) THEN NoValue
    ELSE LET found == IF items[i].t = "dict"
                      THEN FirstStrValue(items[i].items, 1)
                      ELSE NoValue
         IN  IF found # NoValue THEN found ELSE Fallback(items, i + 1)

GENERATED_TEXT == "generated_text"

\* The interpretation of a decoded 200 payload: the value returned, or
\* NoValue when the function raises "Unexpected response format".
Normalise(data) ==
    IF data.t = "dict" /\ HasKey(data, GENERATED_TEXT)
    THEN Get(data, GENERATED_TEXT)
    ELSE IF /\ data.t = "list"
            /\ Len(data.items) > 0
            /\ data.items[1].t = "dict"
            /\ HasKey(data.items[1], GENERATED_TEXT)
    THEN Get(data.items[1], GENERATED_TEXT)
    ELSE IF data.t = "str" THEN data
    ELSE Fallback(IF data.t = "list" THEN data.items ELSE <<data>>, 1)

\* A plausible slip: a retry of a failed POST.
Posts_Retry(prompt, r) ==
    IF ~r.raises /\ r.status_code = HTTP_OK THEN <<prompt>> ELSE <<prompt, prompt>>

\* The POSTs one call issues: requests.post is called once, whatever the
\* answer r is.
Posts(prompt, r) == <<prompt>>

\* What follows requests.post: the exception it raises leaves the function,
\* else the response is interpreted.
AfterPost(posts, r) ==
    IF r.raises THEN Raised(posts, Exc(r.errtext, NoValue))
    ELSE IF r.status_code = HTTP_OK
    THEN IF ~r.json_ok
         THEN Raised(posts,
                Exc(Chars("Invalid JSON response from HF inference API: ") \o r.text,
                    NoValue))
         ELSE LET v == Normalise(r.data)
              IN  IF v # NoValue THEN Returned(posts, v)
                  ELSE Raised(posts,
                         Exc(Chars("Unexpected response format from HF API: "), r.data))
    ELSE Raised(posts,
           Exc(Chars("HF inference API error ") \o Str(r.status_code)
                 \o Chars(": ") \o r.text, NoValue))

TokenNotSet ==
    Exc(Chars("Hugging Face API token is not set. Please set HUGGINGFACE_API_TOKEN."),
        NoValue)

\* A plausible slip: the credential is looked at after the POST.
call_hf_inference_CheckAfterPost(prompt, token, r) ==
    LET res == AfterPost(Posts(prompt, r), r)
    IN  IF TokenMissing(token) THEN Raised(res.posts, TokenNotSet) ELSE res

call_hf_inference(prompt, token, r) ==
    IF TokenMissing(token) THEN Raised(<<>>, TokenNotSet)
    ELSE AfterPost(Posts(prompt, r), r)

(***************************************************************************)
(* generate                                                                *)
(***************************************************************************)
\* The form of a POST /generate: the "prompt" field may be absent.
Form(present, value) == [present |-> present, value |-> value]

\* A plausible slip: the description is not stripped.
FormPrompt_NoStrip(form) == IF form.present THEN form.value ELSE <<>>

\* request.form.get("prompt", "").strip()
FormPrompt(form) == Strip(IF form.present THEN form.value ELSE <<>>)

\* A plausible slip: the markers in the other order.
candidates_HtmlFirst ==
    << Chars("<html"), Chars("<!doctype"), Chars("<!doctype html") >>

candidates ==
    << Chars("<!doctype"), Chars("<html"), Chars("<!doctype html") >>

\* for c in candidates: pos = lowered.find(c); if pos != -1: idx = pos; break
\* (idx = None is written NotFoundPos: no position is negative)
RECURSIVE FirstCandidate(_, _)
FirstCandidate(lowered, k) ==
    IF k > Len(candidates) THEN NotFoundPos
    ELSE LET pos == Find(lowered, candidates[k])
         IN  IF pos # NotFoundPos THEN pos ELSE FirstCandidate(lowered, k + 1)

\* The post-processing of a str: the search runs on the lower-cased copy,
\* the slice is taken from the text itself.
PostProcess(text) ==
    LET lowered == Lower(text)
        idx     == FirstCandidate(lowered, 1)
        result  == IF idx # NotFoundPos THEN Drop(text, idx) ELSE text
    IN  Strip(result)

Message(text, data) == [text |-> text, data |-> data]

PleaseProvide ==
    Message(Chars("Please provide a description of the page you want."), NoValue)

\* The result of a request: what the handler computed on its way and how it
\* answered.  outcome is "redirect" (to the index), "render" (the page with
\* html_code) or "error500" (an exception left the handler).
Result(user_prompt, full_prompt, posts, generated, html_code, flashed, outcome) ==
    [user_prompt |-> user_prompt, full_prompt |-> full_prompt, posts |-> posts,
     generated |-> generated, html_code |-> html_code, flashed |-> flashed,
     outcome |-> outcome]

generate(form, token, r) ==
    LET user_prompt == FormPrompt(form)
    IN  IF user_prompt = <<>>
        THEN Result(user_prompt, <<>>, <<>>, NoValue, <<>>, <<PleaseProvide>>, "redirect")
        ELSE
        LET full_prompt == Format(PROMPT_TEMPLATE, user_prompt)
            call        == call_hf_inference(full_prompt, token, r)
        IN  IF call.raised
            THEN Result(user_prompt, full_prompt, call.posts, NoValue, <<>>,
                        <<Message(Chars("Generation failed: ") \o call.exc.text,
                                  call.exc.data)>>,
                        "redirect")
            ELSE IF call.value.t # "str"
            \* result.lower() on None, a number, a list or a dict: AttributeError,
            \* outside the try block
            THEN Result(user_prompt, full_prompt, call.posts, call.value, <<>>,
                        <<>>, "error500")
            ELSE Result(user_prompt, full_prompt, call.posts, call.value,
                        PostProcess(call.value.s), <<>>, "render")

(***************************************************************************)
(* The inputs of the model                                                 *)
(***************************************************************************)
DOTTED_I == <<"U+0130">>

Pieces ==
    { Chars("<!DOCTYPE"), Chars("<html"), Chars("<HTML>"), Chars(" "),
      Chars("x"), DOTTED_I }

RECURSIVE PieceStrings(_)
PieceStrings(n) ==
    IF n = 0 THEN {<<>>}
    ELSE LET shorter == PieceStrings(n - 1)
         IN  shorter \cup {s \o q : s \in shorter, q \in Pieces}

SpecExample == Chars("  hello <HTML><body>x</body></html> world")

\* Texts a model generates.
RawStrings == PieceStrings(MaxPieces) \cup {SpecExample}

\* Documents a model appends to the prompt it echoes.
ModelOutputs ==
    { Chars("<html><body>x</body></html>"),
      Chars("<!DOCTYPE html>\n<html></html>\n") }

SmallTexts == { <<>>, Chars(" "), Chars("Model is loading"), Chars(" <html>x") }

\* Payloads of the shapes the hosted endpoints use, around a text t.
PayloadsAround(t) ==
    { JStr(t),
      JList(<<JDict(<<GENERATED_TEXT>>, <<JStr(t)>>)>>),
      JList(<<JDict(<<GENERATED_TEXT>>, <<JStr(t)>>), JNum>>),
      JDict(<<"error">>, <<JStr(t)>>),
      JDict(<<"error", GENERATED_TEXT>>, <<JStr(Chars("e")), JStr(t)>>),
      JDict(<<"warning", "error">>, <<JStr(Chars(" \n")), JStr(t)>>),
      JDict(<<"estimated_time", "error">>, <<JNum, JStr(t)>>),
      JDict(<<"error", "detail">>, <<JStr(t), JStr(Chars("d"))>>),
      JList(<<JDict(<<"error">>, <<JStr(t)>>)>>),
      JList(<<JNum, JDict(<<>>, <<>>), JDict(<<"error">>, <<JStr(t)>>)>>),
      JList(<<JDict(<<"a">>, <<JStr(t)>>), JDict(<<"b">>, <<JStr(Chars("second"))>>)>>),
      JList(<<JStr(t)>>),
      JList(<<JList(<<JDict(<<"error">>, <<JStr(t)>>)>>)>>) }

FixedPayloads ==
    { JNum, JNull, JList(<<>>), JDict(<<>>, <<>>),
      JDict(<<GENERATED_TEXT>>, <<JNull>>),
      JDict(<<GENERATED_TEXT>>, <<JNum>>),
      JDict(<<GENERATED_TEXT>>, <<JList(<<JStr(Chars("x"))>>)>>),
      JList(<<JDict(<<GENERATED_TEXT>>, <<JNull>>)>>),
      JList(<<JDict(<<GENERATED_TEXT>>, <<JNum>>)>>),
      JDict(<<"estimated_time">>, <<JNum>>),
      JList(<<JNum>>) }

\* The decoded payloads of a 200 answer to the prompt p.
Payloads(p) ==
    {JDict(<<GENERATED_TEXT>>, <<JStr(t)>>) :
         t \in RawStrings \cup {p \o o : o \in ModelOutputs}}
    \cup UNION {PayloadsAround(t) : t \in SmallTexts}
    \cup FixedPayloads

ErrorStatuses == {503, 404}
ErrorBodies == { <<>>, Chars("Service Unavailable"), Chars("{\"error\": \"loading\"}") }

\* The answers of the endpoint to the prompt p.
Responses(p) ==
    { Response(TRUE, Chars("Read timed out. (read timeout=60)"), 0, <<>>, FALSE, NoValue) }
    \cup {Response(FALSE, <<>>, c, b, FALSE, NoValue) : c \in ErrorStatuses, b \in ErrorBodies}
    \cup {Response(FALSE, <<>>, HTTP_OK, Chars("<h1>gateway</h1>"), FALSE, NoValue)}
    \cup {Response(FALSE, <<>>, HTTP_OK, <<>>, TRUE, d) : d \in Payloads(p)}

NoResponse == Response(FALSE, <<>>, 0, <<>>, FALSE, NoValue)

Descriptions ==
    { <<>>, Chars(" \n "), Chars("a"), Chars(" bakery page\n"), Chars("{x} {{y}}"),
      Chars("HTML_CODE: <html>"), DOTTED_I }

Forms == {Form(FALSE, <<>>)} \cup {Form(TRUE, d) : d \in Descriptions}

(***************************************************************************)
(* The state machine: one request after the other                          *)
(***************************************************************************)
VARIABLES
    HF_API_TOKEN,   \* the credential read at import
    route,          \* the route of the last request
    form,           \* its form
    resp,           \* the endpoint's answer to its POST (NoResponse: none)
    user_prompt,    \* generate's user_prompt
    full_prompt,    \* generate's full_prompt (<<>>: not built)
    posts,          \* the inputs of the POSTs the request issued
    generated,      \* what call_hf_inference returned (NoValue: nothing)
    html_code,      \* the html_code of the rendered page
    flashed,        \* the messages the request flashed
    outcome         \* how the request was answered

vars == <<HF_API_TOKEN, route, form, resp, user_prompt, full_prompt, posts,
          generated, html_code, flashed, outcome>>

NoForm == Form(FALSE, <<>>)

Init ==
    /\ HF_API_TOKEN \in TokenValues
    /\ route = "none"
    /\ form = NoForm
    /\ resp = NoResponse
    /\ user_prompt = <<>>
    /\ full_prompt = <<>>
    /\ posts = <<>>
    /\ generated = NoValue
    /\ html_code = <<>>
    /\ flashed = <<>>
    /\ outcome = "none"

\* GET /: the index page, html_code=None
Index ==
    /\ outcome = "none"
    /\ route' = "index"
    /\ outcome' = "render"
    /\ UNCHANGED <<HF_API_TOKEN, form, resp, user_prompt, full_prompt, posts,
                   generated, html_code, flashed>>

\* POST /clear
Clear ==
    /\ outcome = "none"
    /\ route' = "clear"
    /\ outcome' = "redirect"
    /\ UNCHANGED <<HF_API_TOKEN, form, resp, user_prompt, full_prompt, posts,
                   generated, html_code, flashed>>

\* POST /generate with the form f; the endpoint answers r to a POST, if the
\* handler issues one.
Generate ==
    /\ outcome = "none"
    /\ \E f \in Forms :
         \E r \in Responses(Format(PROMPT_TEMPLATE, FormPrompt(f))) :
           LET res == generate(f, HF_API_TOKEN, r)
           IN  /\ route' = "generate"
               /\ form' = f
               /\ resp' = IF res.posts = <<>> THEN NoResponse ELSE r
               /\ user_prompt' = res.user_prompt
               /\ full_prompt' = res.full_prompt
               /\ posts' = res.posts
               /\ generated' = res.generated
               /\ html_code' = res.html_code
               /\ flashed' = res.flashed
               /\ outcome' = res.outcome
               /\ UNCHANGED HF_API_TOKEN

\* The answer has been sent: the request and the handler's locals are gone,
\* the module-level configuration stays, the next request can come.
EndRequest ==
    /\ outcome # "none"
    /\ route' = "none"
    /\ form' = NoForm
    /\ resp' = NoResponse
    /\ user_prompt' = <<>>
    /\ full_prompt' = <<>>
    /\ posts' = <<>>
    /\ generated' = NoValue
    /\ html_code' = <<>>
    /\ flashed' = <<>>
    /\ outcome' = "none"
    /\ UNCHANGED HF_API_TOKEN

Next == Index \/ Clear \/ Generate \/ EndRequest

Spec == Init /\ [][Next]_vars

(***************************************************************************)
(* Notions the properties are stated with.  They are stated on the text    *)
(* itself, not through Lower, Find or Strip.                               *)
(***************************************************************************)
DOCTYPE_MARKER == Chars("<!doctype")
HTML_MARKER == Chars("<html")

\* The code point c is the letter m (lower case) in either case.
SameLetter(c, m) ==
    \/ c = m
    \/ \E k \in 1..26 : ASCII_LOWER[k] = m /\ ASCII_UPPER[k] = c

\* The marker occurs in s at the 0-based index p, case-insensitively.
MarkerAt(s, marker, p) ==
    /\ p >= 0
    /\ p + Len(marker) <= Len(s)
    /\ \A i \in 1..Len(marker) : SameLetter(s[p + i], marker[i])

MarkerIn(s, marker) == \E p \in 0..Len(s) : MarkerAt(s, marker, p)

FirstMarker(s, marker) ==
    CHOOSE p \in 0..Len(s) :
        MarkerAt(s, marker, p) /\ \A q \in 0..(p - 1) : ~MarkerAt(s, marker, q)

\* sub occurs in s (exactly)
Contains(s, sub) == \E p \in 0..Len(s) : IsAt(s, sub, p)

FirstExact(s, sub) ==
    CHOOSE p \in 0..Len(s) :
        IsAt(s, sub, p) /\ \A q \in 0..(p - 1) : ~IsAt(s, sub, q)

Blank(s) == \A i \in 1..Len(s) : s[i] \in Whitespace

\* s without its leading and trailing whitespace
Trim(s) ==
    IF Blank(s) THEN <<>>
    ELSE LET inked == {i \in 1..Len(s) : s[i] \notin Whitespace}
             a == CHOOSE i \in inked : \A k \in inked : i <= k
             b == CHOOSE i \in inked : \A k \in inked : i >= k
         IN  SubSeq(s, a, b)

\* A /generate request was answered with the page.
Rendered == route = "generate" /\ outcome = "render"

\* The raw generated text of a rendered request.
Raw == generated.s

(***************************************************************************)
(* C1 and C2: where the extraction cuts                                    *)
(***************************************************************************)
PriorityStart(s) ==
    IF MarkerIn(s, DOCTYPE_MARKER) THEN FirstMarker(s, DOCTYPE_MARKER)
    ELSE IF MarkerIn(s, HTML_MARKER) THEN FirstMarker(s, HTML_MARKER)
    ELSE 0

\* C1: the extraction of a raw text R is trim(R[s:]), s being the index in R
\* of the first case-insensitive "<!doctype" if R has one, else of the first
\* case-insensitive "<html" if R has one, else 0.
C1_ExtractionByPriority ==
    Rendered => html_code = Trim(Drop(Raw, PriorityStart(Raw)))

EarliestStart(s) ==
    CHOOSE p \in 0..Len(s) :
        /\ MarkerAt(s, DOCTYPE_MARKER, p) \/ MarkerAt(s, HTML_MARKER, p)
        /\ \A q \in 0..(p - 1) :
             ~MarkerAt(s, DOCTYPE_MARKER, q) /\ ~MarkerAt(s, HTML_MARKER, q)

C8_Idempotent ==
    Rendered => PostProcess(html_code) = html_code

\* C10: when the raw text is the prompt followed by a generated document,
\* the result is that document, trimmed, and has nothing of the prompt.
C10_EchoedPromptRemoved ==
    \A o \in ModelOutputs :
        (Rendered /\ Raw = full_prompt \o o)
            => /\ html_code = Trim(o)
               /\ ~Contains(html_code, Chars("User request:"))

(***************************************************************************)
(* C3: the interpretation of a 200 payload                                 *)
(***************************************************************************)
\* The request POSTed and got a 200 answer that decodes to JSON.
Decoded200 ==
    /\ route = "generate"
    /\ posts # <<>>
    /\ ~resp.raises
    /\ resp.status_code = 200
    /\ resp.json_ok

HasGeneratedText(d) ==
    d.t = "dict" /\ \E k \in 1..Len(d.keys) : d.keys[k] = "generated_text"

GeneratedTextOf(d) ==
    d.items[CHOOSE k \in 1..Len(d.keys) : d.keys[k] = "generated_text"]

FirstHasGeneratedText(d) ==
    d.t = "list" /\ Len(d.items) > 0 /\ HasGeneratedText(d.items[1])

NoShape(d) ==
    ~HasGeneratedText(d) /\ ~FirstHasGeneratedText(d) /\ d.t # "str"

\* call_hf_inference returned v to generate.
ReturnedValue(v) == generated = v /\ outcome \in {"render", "error500"}

\* call_hf_inference failed with the unexpected-format error carrying d.
UnexpectedFormat(d) ==
    /\ generated = NoValue
    /\ outcome = "redirect"
    /\ flashed =
         << [text |-> Chars("Generation failed: Unexpected response format from HF API: "),
             data |-> d] >>

ThreeShapes(d) ==
    /\ HasGeneratedText(d) => ReturnedValue(GeneratedTextOf(d))
    /\ (~HasGeneratedText(d) /\ FirstHasGeneratedText(d))
           => ReturnedValue(GeneratedTextOf(d.items[1]))
    /\ d.t = "str" => ReturnedValue(d)

\* C3 as stated: the three shapes are tried in order, and every payload of
\* none of the three shapes fails with the unexpected-format error carrying
\* the payload.
C3_UnmatchedAlwaysFails ==
    Decoded200 =>
        /\ ThreeShapes(resp.data)
        /\ NoShape(resp.data) => UnexpectedFormat(resp.data)

\* The non-blank string values of the objects among the payload's elements
\* (of the payload itself when it is not an array), as <<element, field>>.
StringValues(d) ==
    LET elems == IF d.t = "list" THEN d.items ELSE <<d>>
    IN  { ij \in (1..Len(elems)) \X (1..3) :
            /\ elems[ij[1]].t = "dict"
            /\ ij[2] <= Len(elems[ij[1]].items)
            /\ elems[ij[1]].items[ij[2]].t = "str"
            /\ ~Blank(elems[ij[1]].items[ij[2]].s) }

Before(ij, kl) == ij[1] < kl[1] \/ (ij[1] = kl[1] /\ ij[2] <= kl[2])

\* C3 as amended: the three shapes are tried in order; a payload of none of
\* the three shapes yields the first non-blank string value of the first
\* object among its elements (of the payload itself when it is an object)
\* that has one, and fails with the unexpected-format error carrying the
\* payload only when there is no such value.
C3_UnmatchedFallsBack ==
    Decoded200 =>
        LET d == resp.data
            elems == IF d.t = "list" THEN d.items ELSE <<d>>
            found == StringValues(d)
        IN  /\ ThreeShapes(d)
            /\ (NoShape(d) /\ found = {}) => UnexpectedFormat(d)
            /\ (NoShape(d) /\ found # {}) =>
                 LET ij == CHOOSE x \in found : \A y \in found : Before(x, y)
                 IN  ReturnedValue(elems[ij[1]].items[ij[2]])

\* A payload of none of the three shapes was answered with a value: a blank
\* string value was passed over for a later one.
C3_Witness ==
    /\ Decoded200
    /\ NoShape(resp.data)
    /\ resp.data.t = "dict"
    /\ Len(resp.data.items) = 2
    /\ resp.data.items[1].t = "str"
    /\ outcome = "render"
    /\ generated = resp.data.items[2]

(***************************************************************************)
(* C4: how a /generate request ends                                        *)
(***************************************************************************)
\* C4: a /generate request ends with the page rendered or with a message
\* flashed and a redirect, never with an exception leaving the handler.
C4_NoUncaughtException ==
    route = "generate" =>
        \/ outcome = "render"
        \/ outcome = "redirect" /\ flashed # <<>>

(***************************************************************************)
(* C5, C6, C7: the POSTs of a request                                      *)
(***************************************************************************)
CredentialAbsent == HF_API_TOKEN.value = <<>>

\* C5: without the credential no POST is issued, and a /generate request
\* that reaches the call ends with the configuration error flashed.
C5_NoPostWithoutCredential ==
    CredentialAbsent =>
        /\ posts = <<>>
        /\ resp = NoResponse
        /\ (route = "generate" /\ full_prompt # <<>>) =>
             /\ outcome = "redirect"
             /\ flashed =
                  << [text |-> Chars("Generation failed: Hugging Face API token is not set. Please set HUGGINGFACE_API_TOKEN."),
                      data |-> NoValue] >>

C5_Witness ==
    /\ CredentialAbsent
    /\ route = "generate"
    /\ ~Blank(form.value)
    /\ outcome = "redirect"
    /\ posts = <<>>

\* C6: a /generate request whose description is empty or whitespace is
\* answered with the validation message and a redirect; no prompt is built
\* and no POST is issued.
C6_BlankDescriptionRejected ==
    (route = "generate" /\ (~form.present \/ Blank(form.value))) =>
        /\ outcome = "redirect"
        /\ flashed =
             << [text |-> Chars("Please provide a description of the page you want."),
                 data |-> NoValue] >>
        /\ full_prompt = <<>>
        /\ posts = <<>>
        /\ resp = NoResponse
        /\ generated = NoValue

C6_Witness ==
    /\ route = "generate"
    /\ form.present
    /\ form.value # <<>>
    /\ Blank(form.value)
    /\ outcome = "redirect"
    /\ ~CredentialAbsent

StatusText == (503 :> Chars("503")) @@ (404 :> Chars("404"))

\* C7: a request issues at most one POST, and exactly one (of the prompt)
\* when the description is not blank and the credential is present; after a
\* timeout or a status other than 200 there is no second POST, and for such
\* a status the flashed message has the status code and the response body.
C7_SinglePost ==
    /\ Len(posts) <= 1
    /\ (route = "generate" /\ form.present /\ ~Blank(form.value) /\ ~CredentialAbsent)
          => posts = <<full_prompt>>
    /\ (posts # <<>> /\ resp.raises) => (outcome = "redirect" /\ Len(flashed) = 1)
    /\ (posts # <<>> /\ ~resp.raises /\ resp.status_code # 200) =>
          /\ outcome = "redirect"
          /\ Len(flashed) = 1
          /\ \E p \in 0..Len(flashed[1].text) :
               IsAt(flashed[1].text,
                    StatusText[resp.status_code] \o Chars(": ") \o resp.text, p)

C7_Witness ==
    /\ route = "generate"
    /\ Len(posts) = 1
    /\ ~resp.raises
    /\ resp.status_code = 503
    /\ resp.text # <<>>
    /\ outcome = "redirect"

(***************************************************************************)
(* C9: the prompt                                                          *)
(***************************************************************************)
LABEL == Chars("\n\nHTML_CODE:\n")

\* C9: the prompt of a non-empty trimmed description U is the fixed
\* directive text, then U as it is, then the "HTML_CODE:" label at the end
\* (so it is the same for the same U).
C9_PromptEmbedsDescription ==
    (route = "generate" /\ user_prompt # <<>>) =>
        LET n == Len(full_prompt)
            u == Len(user_prompt)
            head == n - Len(LABEL) - u
        IN  /\ head > 0
            /\ IsAt(full_prompt, LABEL, n - Len(LABEL))
            /\ IsAt(full_prompt, user_prompt, head)
            /\ IsAt(full_prompt, Chars("User request: "), head - 14)
            /\ \A k \in 1..Len(DirectiveLines) :
                 \E p \in 0..(head - 14) :
                    /\ IsAt(full_prompt, DirectiveLines[k], p)
                    /\ p + Len(DirectiveLines[k]) <= head - 14
            /\ head = 1 + 5 * 5 + 4 + 14
                        + Len(DirectiveLines[1]) + Len(DirectiveLines[2])
                        + Len(DirectiveLines[3]) + Len(DirectiveLines[4])
                        + Len(DirectiveLines[5])

\* A description with braces and one with the label's text were embedded.
C9_Witness ==
    /\ route = "generate"
    /\ user_prompt \in {Chars("{x} {{y}}"), Chars("HTML_CODE: <html>")}
    /\ full_prompt # <<>>
    /\ Contains(full_prompt, user_prompt)

====
